---- MODULE Spec2Model ----
(***************************************************************************)
(* A model of celiter: the lazily advancing cursor Value[T] (celiter.go),  *)
(* its constructors New and FromSeq, and the exporter AsSeq.  The element  *)
(* type T is int.  Producers are the ones the package's tests build: a     *)
(* callback pair over a slice (TestNew), slices.Values imported through    *)
(* FromSeq (TestFromSeq, TestAsSeq) and the endless Fibonacci generator    *)
(* (Test_Seq_Fibonacci); and the callbacks New substitutes for omitted     *)
(* ones.                                                                   *)
(***************************************************************************)
EXTENDS Integers, Sequences, FiniteSets, TLC

\* ------------------------------------------------------------------ bounds
MaxLen == 2          \* longest finite producer sequence
MaxFaultCalls == 1   \* the call of a callback that fails is among an operation's first MaxFaultCalls
FibMaxKey == 10      \* largest index asked of the Fibonacci cursor

MaxKey == MaxLen + 1     \* largest index asked of a finite cursor
MaxIndex == MaxLen + 2   \* Next is not called once index has reached this
MaxPull == FibMaxKey + 1 \* the Fibonacci generator is not resumed more often than this

VARIABLES
    kind,         \* which producer backs the cursor: "callbacks", "seq", "fib"
                  \* or "default" (New(nil, nil, nil))
    values,       \* the finite producer's elements (<<>> for "fib")
    index,        \* Value.index
    cur,          \* Value.cur
    valuesIndex,  \* the callback producer's position (TestNew)
    seqCur,       \* FromSeq's captured variable cur: the element last pulled
    pulled,       \* how many elements the pulled generator has yielded
    a, b,         \* the Fibonacci generator's locals
    stopped,      \* iter.Pull's stop has been invoked
    advances,     \* history: how many calls of the next callback succeeded
    pending,      \* history: the last callback invoked was hasNext and it returned true
    proto,        \* history: no next without a pending hasNext, no hasNext while one is pending
    iterating,    \* history: so far only HasNext and Next were called, to the
                  \* protocol (Next after each true HasNext), and no callback failed
    trueCount,    \* history, while iterating: how many HasNext calls returned true
    sawFalse,     \* history, while iterating: some HasNext call returned false
    sized,        \* history: a Size call has returned a size
    last,         \* history: the last operation, its argument, result and pre-state
    pc,           \* per enumeration sharing the cursor: where its loop stands
    seen          \* per enumeration sharing the cursor: the elements Next gave it

vars == <<kind, values, index, cur, valuesIndex, seqCur, pulled, a, b, stopped,
          advances, pending, proto, iterating, trueCount, sawFalse, sized, last,
          pc, seen>>

\* What finite producers deliver: two values, so that sequences with and
\* without repeated elements occur; neither is the zero value.
Elems == {1, 2}
Zero == 0    \* var zero T, T = int

Kinds == {"callbacks", "seq", "fib", "default"}

SeqsUpTo(n) == UNION {[1..m -> Elems] : m \in 0..n}

\* ------------------------------------------------------------ host values
\* ref.Val as the code uses it: a type tag and the payload Value() returns,
\* an integer (value; a bool is 1 or 0) or a text (text).
BoolVal(x) == [type |-> "bool", value |-> IF x THEN 1 ELSE 0, text |-> ""]
IntVal(n) == [type |-> "int", value |-> n, text |-> ""]
StringVal(str) == [type |-> "string", value |-> 0, text |-> str]
NewErr(msg) == [type |-> "error", value |-> 0, text |-> msg]
True == BoolVal(TRUE)
False == BoolVal(FALSE)

\* rv.Value().(bool), for rv of type bool
Truth(rv) == rv.value = 1

\* Whether host values x and y are the same value of the same type.
Is(x, y) == x.type = y.type /\ x.value = y.value /\ x.text = y.text

\* A Go panic unwinding out of the operation; value names its cause.
Panic(msg) == [type |-> "panic", value |-> 0, text |-> msg]
AssertBoolPanic == Panic("interface conversion: interface {} is error, not bool")
AssertNativePanic == Panic("interface conversion: interface {} is error, not int")
IndexPanic == Panic("index out of range")

IsPanic(rv) == rv.type = "panic"

\* convert: func(v int) ref.Val { return types.Int(v) }
convert(t) == IntVal(t)

\* AsSeq's convert: func(v ref.Val) T { return v.Value().(T) }; the assertion
\* fails on a value whose payload is not a T.
IsNative(rv) == rv.type = "int"
native(rv) == rv.value

\* The convert functions a caller hands to AsSeq: "assert", the one above
\* (AsSeq's default and the tests'), and "lenient", one that asserts with
\* the comma-ok form, t, _ := v.Value().(T), and so answers the zero value
\* for a payload that is not a T.
Converts == {"assert", "lenient"}

\* ref.Val.Equal as Contains uses it: Int.Equal answers True for an equal
\* int and False otherwise; Err.Equal answers the error itself.
Equal(x, y) ==
    IF x.type = "error" THEN x
    ELSE IF Is(x, y) THEN True ELSE False

\* fmt.Sprintf("%v", rv)
Sprintf(rv) ==
    IF rv.type = "bool" THEN (IF Truth(rv) THEN "true" ELSE "false")
    ELSE IF rv.type = "error" THEN rv.text
    ELSE "other"

\* ------------------------------------------------------ producer callbacks
\* The mutable state an operation threads through its calls: the Value's
\* fields, the producer's state, and the history an operation accumulates
\* (hn, nx: callback calls made by the operation so far).
State ==
    [index |-> index, cur |-> cur, valuesIndex |-> valuesIndex, seqCur |-> seqCur,
     pulled |-> pulled, a |-> a, b |-> b, stopped |-> stopped,
     advances |-> advances, pending |-> pending, proto |-> proto,
     hn |-> 0, nx |-> 0, faulted |-> FALSE, retried |-> FALSE]

\* Which call of an operation's callbacks reports an error: the call of
\* hasNext that is the operation's F.hn-th, or the call of next that is its
\* F.nx-th (0: none).  Only a callback producer can fail; FromSeq's
\* callbacks always return a nil error.
NoFaults == [hn |-> 0, nx |-> 0]
Faults ==
    {NoFaults} \cup {[hn |-> j, nx |-> 0] : j \in 1..MaxFaultCalls}
               \cup {[hn |-> 0, nx |-> j] : j \in 1..MaxFaultCalls}

\* the generator slices.Values(values), resumed once: the next element, if any
valuesSeq(s) ==
    IF s.pulled < Len(values)
    THEN [s |-> [s EXCEPT !.pulled = @ + 1], v |-> values[s.pulled + 1], ok |-> TRUE]
    ELSE [s |-> s, v |-> Zero, ok |-> FALSE]

\* the generator fibSeq, resumed once: yield(a), and a, b = b, a+b in between
fibSeq(s) ==
    IF s.pulled = 0
    THEN [s |-> [s EXCEPT !.pulled = 1], v |-> s.a, ok |-> TRUE]
    ELSE [s |-> [s EXCEPT !.pulled = @ + 1, !.a = s.b, !.b = s.a + s.b],
          v |-> s.b, ok |-> TRUE]

\* next of iter.Pull(seq): resumes the generator unless it has been stopped
\* or has returned; then the zero value and false.
pullNext(s) ==
    IF s.stopped THEN [s |-> s, v |-> Zero, ok |-> FALSE]
    ELSE IF kind = "fib" THEN fibSeq(s)
    ELSE valuesSeq(s)

\* stop of iter.Pull(seq)
pullStop(s) == [s EXCEPT !.stopped = TRUE]

\* history kept at every hasNext callback call
NoteHasNext(s0, s, ok, err) ==
    [s EXCEPT !.hn = s0.hn + 1,
              !.retried = s0.retried \/ s0.faulted,
              !.faulted = s0.faulted \/ err,
              !.proto = s0.proto /\ ~s0.pending,
              !.pending = ok /\ ~err]

\* history kept at every next callback call
NoteNext(s0, s, err) ==
    [s EXCEPT !.nx = s0.nx + 1,
              !.retried = s0.retried \/ s0.faulted,
              !.faulted = s0.faulted \/ err,
              !.proto = s0.proto /\ s0.pending,
              !.pending = FALSE,
              !.advances = IF err THEN @ ELSE @ + 1]

\* The error a failing callback of the caller's reports.
ProducerError == "producer failed"

\* New's default hasNext: return false, nil
defaultHasNext(s, F) ==
    [s |-> NoteHasNext(s, s, FALSE, FALSE), ok |-> FALSE, err |-> FALSE, msg |-> ""]

\* TestNew's hasNext: return valuesIndex < len(values), nil
newHasNext(s, F) ==
    IF s.hn + 1 = F.hn
    THEN [s |-> NoteHasNext(s, s, FALSE, TRUE), ok |-> FALSE, err |-> TRUE,
          msg |-> ProducerError]
    ELSE LET ok == s.valuesIndex < Len(values)
         IN [s |-> NoteHasNext(s, s, ok, FALSE), ok |-> ok, err |-> FALSE, msg |-> ""]

\* seqHasNext resuming the generator twice per call
seqHasNext_DoublePull(s, F) ==
    LET p0 == pullNext(s)
        p == pullNext(p0.s)
        s1 == [p.s EXCEPT !.seqCur = p.v]
        s2 == IF ~p.ok THEN pullStop(s1) ELSE s1
    IN [s |-> NoteHasNext(s, s2, p.ok, FALSE), ok |-> p.ok, err |-> FALSE, msg |-> ""]

\* seqHasNext without the call of stop
seqHasNext_NoStop(s, F) ==
    LET p == pullNext(s)
        s1 == [p.s EXCEPT !.seqCur = p.v]
    IN [s |-> NoteHasNext(s, s1, p.ok, FALSE), ok |-> p.ok, err |-> FALSE, msg |-> ""]

\* FromSeq's hasNext: cur, ok = next(); if !ok { stop() }; return ok, nil
seqHasNext(s, F) ==
    LET p == pullNext(s)
        s1 == [p.s EXCEPT !.seqCur = p.v]
        s2 == IF ~p.ok THEN pullStop(s1) ELSE s1
    IN [s |-> NoteHasNext(s, s2, p.ok, FALSE), ok |-> p.ok, err |-> FALSE, msg |-> ""]

\* Value.hasNext, the callback New stored
hasNext(s, F) ==
    IF kind = "callbacks" THEN newHasNext(s, F)
    ELSE IF kind = "default" THEN defaultHasNext(s, F)
    ELSE seqHasNext(s, F)

\* defaultNext returning the zero value with a nil error
defaultNext_NoError(s, F) ==
    [s |-> NoteNext(s, s, FALSE), v |-> Zero, err |-> FALSE, panic |-> FALSE, msg |-> ""]

\* New's default next: var zero T; return zero, fmt.Errorf("no next element")
defaultNext(s, F) ==
    [s |-> NoteNext(s, s, TRUE), v |-> Zero, err |-> TRUE, panic |-> FALSE,
     msg |-> "no next element"]

\* newNext without valuesIndex++
newNext_NoAdvance(s, F) ==
    IF s.nx + 1 = F.nx
    THEN [s |-> NoteNext(s, s, TRUE), v |-> Zero, err |-> TRUE, panic |-> FALSE,
          msg |-> ProducerError]
    ELSE IF s.valuesIndex >= Len(values)
    THEN [s |-> [s EXCEPT !.nx = @ + 1, !.proto = @ /\ s.pending, !.pending = FALSE],
          v |-> Zero, err |-> FALSE, panic |-> TRUE, msg |-> ""]
    ELSE [s |-> NoteNext(s, s, FALSE),
          v |-> values[s.valuesIndex + 1], err |-> FALSE, panic |-> FALSE, msg |-> ""]

\* TestNew's next: val := values[valuesIndex]; valuesIndex++; return val, nil
\* (the slice index panics past the end)
newNext(s, F) ==
    IF s.nx + 1 = F.nx
    THEN [s |-> NoteNext(s, s, TRUE), v |-> Zero, err |-> TRUE, panic |-> FALSE,
          msg |-> ProducerError]
    ELSE IF s.valuesIndex >= Len(values)
    THEN [s |-> [s EXCEPT !.nx = @ + 1, !.proto = @ /\ s.pending, !.pending = FALSE],
          v |-> Zero, err |-> FALSE, panic |-> TRUE, msg |-> ""]
    ELSE [s |-> NoteNext(s, [s EXCEPT !.valuesIndex = @ + 1], FALSE),
          v |-> values[s.valuesIndex + 1], err |-> FALSE, panic |-> FALSE, msg |-> ""]

\* seqNext resuming the generator itself
seqNext_Pulls(s, F) ==
    LET p == pullNext(s) IN
    [s |-> NoteNext(s, [p.s EXCEPT !.seqCur = p.v], FALSE), v |-> p.v, err |-> FALSE,
     panic |-> FALSE, msg |-> ""]

\* FromSeq's getNext: return cur, nil
seqNext(s, F) ==
    [s |-> NoteNext(s, s, FALSE), v |-> s.seqCur, err |-> FALSE, panic |-> FALSE,
     msg |-> ""]

\* Value.next, the callback New stored
next(s, F) ==
    IF kind = "callbacks" THEN newNext(s, F)
    ELSE IF kind = "default" THEN defaultNext(s, F)
    ELSE seqNext(s, F)

\* --------------------------------------------------------- Value's methods
\* Each answers [s |-> the state after, rv |-> the ref.Val returned].

\* types.NewErr("error getting next element: %w", err)
NextErr(msg) == NewErr("error getting next element: " \o msg)

\* types.NewErr("error checking for next element: %w", err)
HasNextErr(msg) == NewErr("error checking for next element: " \o msg)

\* ValueNext without ci.cur = next
ValueNext_NoStore(s, F) ==
    LET r == next(s, F) IN
    IF r.panic THEN [s |-> r.s, rv |-> IndexPanic]
    ELSE IF r.err THEN [s |-> r.s, rv |-> NextErr(r.msg)]
    ELSE [s |-> [r.s EXCEPT !.index = @ + 1], rv |-> convert(r.v)]

\* ValueNext with ci.index++ ahead of the error check
ValueNext_CountsFailure(s, F) ==
    LET r == next(s, F) IN
    IF r.panic THEN [s |-> r.s, rv |-> IndexPanic]
    ELSE IF r.err
    THEN [s |-> [r.s EXCEPT !.index = @ + 1], rv |-> NextErr(r.msg)]
    ELSE [s |-> [r.s EXCEPT !.cur = r.v, !.index = @ + 1], rv |-> convert(r.v)]

\* reflect.TypeOf(nativeValue), nativeValue a T = int
TypeOf(t) == "int"

\* The (any, error) ConvertToNative returns: the native value with a nil
\* error, or nil with an error.
NativeVal(t) == [type |-> "native", value |-> t, text |-> ""]

\* func (v *Value[T]) ConvertToNative(typ reflect.Type) (any, error):
\* v.cur if its type is assignable to typ, else an error
ValueConvertToNative(s, typ) ==
    IF TypeOf(s.cur) = typ
    THEN [s |-> s, rv |-> NativeVal(s.cur)]
    ELSE [s |-> s, rv |-> NewErr("unable to convert dyn to native type " \o typ)]

\* func (ci *Value[T]) Next() ref.Val
ValueNext(s, F) ==
    LET r == next(s, F) IN
    IF r.panic THEN [s |-> r.s, rv |-> IndexPanic]
    ELSE IF r.err THEN [s |-> r.s, rv |-> NextErr(r.msg)]
    ELSE [s |-> [r.s EXCEPT !.cur = r.v, !.index = @ + 1], rv |-> convert(r.v)]

\* func (ci *Value[T]) HasNext() ref.Val
ValueHasNext(s, F) ==
    LET r == hasNext(s, F) IN
    IF r.err THEN [s |-> r.s, rv |-> HasNextErr(r.msg)]
    ELSE [s |-> r.s, rv |-> BoolVal(r.ok)]

\* GetBody answering the current element at exhaustion instead of an error
GetBody_NoBoundsError(s, keyIndex, F) ==
    IF s.index < keyIndex
    THEN LET h == ValueHasNext(s, F) IN
         IF h.rv.type # "bool" THEN [s |-> h.s, rv |-> AssertBoolPanic, again |-> FALSE]
         ELSE IF ~Truth(h.rv) THEN [s |-> h.s, rv |-> convert(h.s.cur), again |-> FALSE]
         ELSE LET n == ValueNext(h.s, F) IN
              [s |-> n.s, rv |-> n.rv, again |-> ~IsPanic(n.rv)]
    ELSE [s |-> s, rv |-> convert(s.cur), again |-> FALSE]

\* GetBody looping while v.index <= keyIndex
GetBody_Overrun(s, keyIndex, F) ==
    IF s.index <= keyIndex
    THEN LET h == ValueHasNext(s, F) IN
         IF h.rv.type # "bool" THEN [s |-> h.s, rv |-> AssertBoolPanic, again |-> FALSE]
         ELSE IF ~Truth(h.rv)
         THEN [s |-> h.s, rv |-> NewErr("index out of bounds during iterable access"),
               again |-> FALSE]
         ELSE LET n == ValueNext(h.s, F) IN
              [s |-> n.s, rv |-> n.rv, again |-> ~IsPanic(n.rv)]
    ELSE [s |-> s, rv |-> convert(s.cur), again |-> FALSE]

\* One pass of Get's loop condition and body:
\*   for v.index < keyIndex {
\*     if !v.HasNext().Value().(bool) { return NewErr("index out of bounds ...") }
\*     v.Next() }
\*   return v.convert(v.cur)
\* Err.Value() is an error, so the assertion .(bool) panics on it.  Answers
\* again = TRUE when the loop goes round once more.
GetBody(s, keyIndex, F) ==
    IF s.index < keyIndex
    THEN LET h == ValueHasNext(s, F) IN
         IF h.rv.type # "bool" THEN [s |-> h.s, rv |-> AssertBoolPanic, again |-> FALSE]
         ELSE IF ~Truth(h.rv)
         THEN [s |-> h.s, rv |-> NewErr("index out of bounds during iterable access"),
               again |-> FALSE]
         ELSE LET n == ValueNext(h.s, F) IN
              [s |-> n.s, rv |-> n.rv, again |-> ~IsPanic(n.rv)]
    ELSE [s |-> s, rv |-> convert(s.cur), again |-> FALSE]

\* (r ranges over the one result of the pass, so that it is computed once)
RECURSIVE GetLoop(_, _, _)
GetLoop(s, keyIndex, F) ==
    CHOOSE res \in {IF r.again THEN GetLoop(r.s, keyIndex, F)
                    ELSE [s |-> r.s, rv |-> r.rv] : r \in {GetBody(s, keyIndex, F)}} : TRUE

\* ValueGet without the check keyIndex < v.index
ValueGet_NoPassedCheck(s, key, F) ==
    IF key.type # "int" THEN [s |-> s, rv |-> NewErr("invalid key type for iterable")]
    ELSE IF key.value < 0 THEN [s |-> s, rv |-> NewErr("index cannot be negative")]
    ELSE GetLoop(s, key.value, F)

\* ValueGet checking availability ahead of validating the key
ValueGet_ProbesFirst(s, key, F) ==
    LET h == ValueHasNext(s, F) IN
    IF key.type # "int" THEN [s |-> h.s, rv |-> NewErr("invalid key type for iterable")]
    ELSE IF key.value < 0 THEN [s |-> h.s, rv |-> NewErr("index cannot be negative")]
    ELSE IF key.value < s.index THEN [s |-> h.s, rv |-> NewErr("index already passed")]
    ELSE GetLoop(s, key.value, F)

\* ValueGet rejecting keyIndex <= v.index
ValueGet_PassedInclusive(s, key, F) ==
    IF key.type # "int" THEN [s |-> s, rv |-> NewErr("invalid key type for iterable")]
    ELSE IF key.value < 0 THEN [s |-> s, rv |-> NewErr("index cannot be negative")]
    ELSE IF key.value <= s.index THEN [s |-> s, rv |-> NewErr("index already passed")]
    ELSE GetLoop(s, key.value, F)

\* func (v *Value[T]) Get(key ref.Val) ref.Val
ValueGet(s, key, F) ==
    IF key.type # "int" THEN [s |-> s, rv |-> NewErr("invalid key type for iterable")]
    ELSE IF key.value < 0 THEN [s |-> s, rv |-> NewErr("index cannot be negative")]
    ELSE IF key.value < s.index THEN [s |-> s, rv |-> NewErr("index already passed")]
    ELSE GetLoop(s, key.value, F)

\* One pass of Size's loop:
\*   for v.HasNext().Value().(bool) { v.Next(); size++ }
\*   return types.Int(size)
SizeBody(s, size, F) ==
    LET h == ValueHasNext(s, F) IN
    IF h.rv.type # "bool" THEN [s |-> h.s, rv |-> AssertBoolPanic, again |-> FALSE]
    ELSE IF ~Truth(h.rv) THEN [s |-> h.s, rv |-> IntVal(size), again |-> FALSE]
    ELSE LET n == ValueNext(h.s, F) IN
         [s |-> n.s, rv |-> n.rv, again |-> ~IsPanic(n.rv)]

RECURSIVE SizeLoop(_, _, _)
SizeLoop(s, size, F) ==
    CHOOSE res \in {IF r.again THEN SizeLoop(r.s, size + 1, F)
                    ELSE [s |-> r.s, rv |-> r.rv] : r \in {SizeBody(s, size, F)}} : TRUE

\* ValueSize counting from 1
ValueSize_OffByOne(s, F) == SizeLoop(s, 1, F)

\* func (v *Value[T]) Size() ref.Val
ValueSize(s, F) == SizeLoop(s, 0, F)

\* ContainsBody comparing the element held before the advance
ContainsBody_Stale(s, val, F) ==
    LET h == ValueHasNext(s, F) IN
    IF h.rv.type # "bool" THEN [s |-> h.s, rv |-> AssertBoolPanic, again |-> FALSE]
    ELSE IF ~Truth(h.rv) THEN [s |-> h.s, rv |-> False, again |-> FALSE]
    ELSE LET n == ValueNext(h.s, F) IN
         IF IsPanic(n.rv) THEN [s |-> n.s, rv |-> n.rv, again |-> FALSE]
         ELSE IF Is(Equal(convert(s.cur), val), True)
         THEN [s |-> n.s, rv |-> True, again |-> FALSE]
         ELSE [s |-> n.s, rv |-> n.rv, again |-> TRUE]

\* One pass of Contains's loop:
\*   for v.HasNext().Value().(bool) {
\*     if v.Next().Equal(val) == types.True { return types.True } }
\*   return types.False
ContainsBody(s, val, F) ==
    LET h == ValueHasNext(s, F) IN
    IF h.rv.type # "bool" THEN [s |-> h.s, rv |-> AssertBoolPanic, again |-> FALSE]
    ELSE IF ~Truth(h.rv) THEN [s |-> h.s, rv |-> False, again |-> FALSE]
    ELSE LET n == ValueNext(h.s, F) IN
         IF IsPanic(n.rv) THEN [s |-> n.s, rv |-> n.rv, again |-> FALSE]
         ELSE IF Is(Equal(n.rv, val), True) THEN [s |-> n.s, rv |-> True, again |-> FALSE]
         ELSE [s |-> n.s, rv |-> n.rv, again |-> TRUE]

\* func (v *Value[T]) Contains(val ref.Val) ref.Val
RECURSIVE ValueContains(_, _, _)
ValueContains(s, val, F) ==
    CHOOSE res \in {IF r.again THEN ValueContains(r.s, val, F)
                    ELSE [s |-> r.s, rv |-> r.rv] : r \in {ContainsBody(s, val, F)}} : TRUE

\* AsSeqBody breaking whenever the consumer has taken take elements or more
AsSeqBody_StopsEarly(s, out, take, conv, F) ==
    LET h == ValueHasNext(s, F) IN
    IF Sprintf(h.rv) # "true"
    THEN [s |-> h.s, out |-> out, rv |-> StringVal("exhausted"), again |-> FALSE]
    ELSE LET n == ValueNext(h.s, F) IN
         IF IsPanic(n.rv) THEN [s |-> n.s, out |-> out, rv |-> n.rv, again |-> FALSE]
         ELSE IF ~IsNative(n.rv) /\ conv = "assert"
         THEN [s |-> n.s, out |-> out, rv |-> AssertNativePanic, again |-> FALSE]
         ELSE LET o == Append(out, IF IsNative(n.rv) THEN native(n.rv) ELSE Zero) IN
              IF Len(o) >= take
              THEN [s |-> n.s, out |-> o, rv |-> StringVal("stopped"), again |-> FALSE]
              ELSE [s |-> n.s, out |-> o, rv |-> n.rv, again |-> TRUE]

\* AsSeqBody releasing the underlying generator when the consumer stops
AsSeqBody_Releases(s, out, take, conv, F) ==
    LET h == ValueHasNext(s, F) IN
    IF Sprintf(h.rv) # "true"
    THEN [s |-> h.s, out |-> out, rv |-> StringVal("exhausted"), again |-> FALSE]
    ELSE LET n == ValueNext(h.s, F) IN
         IF IsPanic(n.rv) THEN [s |-> n.s, out |-> out, rv |-> n.rv, again |-> FALSE]
         ELSE IF ~IsNative(n.rv) /\ conv = "assert"
         THEN [s |-> n.s, out |-> out, rv |-> AssertNativePanic, again |-> FALSE]
         ELSE LET o == Append(out, IF IsNative(n.rv) THEN native(n.rv) ELSE Zero) IN
              IF Len(o) = take
              THEN [s |-> pullStop(n.s), out |-> o, rv |-> StringVal("stopped"),
                    again |-> FALSE]
              ELSE [s |-> n.s, out |-> o, rv |-> n.rv, again |-> TRUE]

\* ------------------------------------------------------------------- AsSeq
\* One pass of the loop of the generator AsSeq returns, against a consumer
\* whose yield returns false on the take-th element (take = 0: never, as
\* slices.Collect):
\*   for { ok, err := hasNext(); if err != nil || !ok {break}
\*         t, err := getNext(); if err != nil {break}; if !yield(t) {break} }
\* with hasNext = fmt.Sprintf("%v", iterVal.HasNext()) == "true" and
\* getNext = convert(iterVal.Next()), whose error is always nil.  conv: the
\* convert the caller passed; out: the elements yielded so far; rv: how the
\* generator ended.
AsSeqBody(s, out, take, conv, F) ==
    LET h == ValueHasNext(s, F) IN
    IF Sprintf(h.rv) # "true"
    THEN [s |-> h.s, out |-> out, rv |-> StringVal("exhausted"), again |-> FALSE]
    ELSE LET n == ValueNext(h.s, F) IN
         IF IsPanic(n.rv) THEN [s |-> n.s, out |-> out, rv |-> n.rv, again |-> FALSE]
         ELSE IF ~IsNative(n.rv) /\ conv = "assert"
         THEN [s |-> n.s, out |-> out, rv |-> AssertNativePanic, again |-> FALSE]
         ELSE LET o == Append(out, IF IsNative(n.rv) THEN native(n.rv) ELSE Zero) IN
              IF Len(o) = take
              THEN [s |-> n.s, out |-> o, rv |-> StringVal("stopped"), again |-> FALSE]
              ELSE [s |-> n.s, out |-> o, rv |-> n.rv, again |-> TRUE]

\* func AsSeq[T any](val ref.Val, convert func(ref.Val) T) iter.Seq[T], the
\* generator it returns run to its end
RECURSIVE AsSeq(_, _, _, _, _)
AsSeq(s, out, take, conv, F) ==
    CHOOSE res \in {IF r.again THEN AsSeq(r.s, r.out, take, conv, F)
                    ELSE [s |-> r.s, out |-> r.out, rv |-> r.rv] :
                    r \in {AsSeqBody(s, out, take, conv, F)}} : TRUE

\* ----------------------------------------------------------------- actions
NoArg == [type |-> "none", value |-> 0, text |-> ""]

\* Two enumerations of one Value: Iterator() returns the Value itself, so
\* each enumeration the host starts runs its loop on the same cursor.
Enumerations == {1, 2}

\* New (celiter.go:60-65) and FromSeq (celiter.go:191-208) over the tests' producers
Init ==
    /\ kind \in Kinds
    /\ values \in (IF kind \in {"fib", "default"} THEN {<<>>} ELSE SeqsUpTo(MaxLen))
    /\ index = -1
    /\ cur = Zero
    /\ valuesIndex = 0
    /\ seqCur = Zero
    /\ pulled = 0
    /\ a = 0
    /\ b = 1
    /\ stopped = FALSE
    /\ advances = 0
    /\ pending = FALSE
    /\ proto = TRUE
    /\ iterating = TRUE
    /\ trueCount = 0
    /\ sawFalse = FALSE
    /\ sized = FALSE
    /\ last = [op |-> IF kind \in {"callbacks", "default"} THEN "New" ELSE "FromSeq",
               arg |-> NoArg,
               rv |-> NoArg, out |-> <<>>, conv |-> "", hn |-> 0, nx |-> 0,
               faulted |-> FALSE,
               retried |-> FALSE, pre |-> State]
    /\ pc = [e \in Enumerations |-> "check"]
    /\ seen = [e \in Enumerations |-> <<>>]

FaultsFor == IF kind = "callbacks" THEN Faults ELSE {NoFaults}

\* The counters the model caps.
InBounds(s) ==
    /\ s.index <= (IF kind = "fib" THEN FibMaxKey ELSE MaxIndex)
    /\ s.pulled <= MaxPull

\* The state after an operation that ended in state r.s answering r.rv.
CommitCursor(r, op, arg, out, conv) ==
    /\ InBounds(r.s)
    /\ index' = r.s.index
    /\ cur' = r.s.cur
    /\ valuesIndex' = r.s.valuesIndex
    /\ seqCur' = r.s.seqCur
    /\ pulled' = r.s.pulled
    /\ a' = r.s.a
    /\ b' = r.s.b
    /\ stopped' = r.s.stopped
    /\ advances' = r.s.advances
    /\ pending' = r.s.pending
    /\ proto' = r.s.proto
    /\ last' = [op |-> op, arg |-> arg, rv |-> r.rv, out |-> out, conv |-> conv,
                hn |-> r.s.hn, nx |-> r.s.nx, faulted |-> r.s.faulted, retried |-> r.s.retried,
                pre |-> State]
    /\ sized' = (sized \/ (op = "Size" /\ r.rv.type = "int"))
    /\ UNCHANGED <<kind, values>>

\* An operation of the cursor's single owner.
Commit(r, op, arg, out, conv) ==
    /\ CommitCursor(r, op, arg, out, conv)
    /\ UNCHANGED <<pc, seen>>

\* The iteration history ends with the first call outside the protocol.
NotIterating == iterating' = FALSE /\ trueCount' = 0 /\ sawFalse' = FALSE

DoHasNext ==
    \E F \in {G \in FaultsFor : G.hn <= 1 /\ G.nx = 0} :
    \E r \in {ValueHasNext(State, F)} :
      /\ Commit(r, "HasNext", NoArg, <<>>, "")
      /\ IF iterating /\ r.s.proto /\ ~r.s.faulted
         THEN /\ iterating' = TRUE
              /\ trueCount' = IF Is(r.rv, True) THEN trueCount + 1 ELSE trueCount
              /\ sawFalse' = (sawFalse \/ Is(r.rv, False))
         ELSE NotIterating

DoNext ==
    \E F \in {G \in FaultsFor : G.nx <= 1 /\ G.hn = 0} :
    \E r \in {ValueNext(State, F)} :
      /\ Commit(r, "Next", NoArg, <<>>, "")
      /\ IF iterating /\ r.s.proto /\ ~r.s.faulted
         THEN UNCHANGED <<iterating, trueCount, sawFalse>>
         ELSE NotIterating

IntKeys == {IntVal(k) : k \in -1..(IF kind = "fib" THEN FibMaxKey ELSE MaxKey)}
OtherKeys == {StringVal("0")}

GetWith(key, F) ==
    \E r \in {ValueGet(State, key, F)} :
      /\ Commit(r, "Get", key, <<>>, "")
      /\ NotIterating

DoGet ==
    \E F \in FaultsFor :
      \/ \E key \in IntKeys : GetWith(key, F)
      \/ \E key \in OtherKeys : GetWith(key, F)

\* Size does not return on an endless producer.
DoSize ==
    /\ kind # "fib"
    /\ \E F \in FaultsFor :
         \E r \in {ValueSize(State, F)} :
           /\ Commit(r, "Size", NoArg, <<>>, "")
           /\ NotIterating

IntNeedles == {IntVal(e) : e \in Elems \cup {Zero}}
OtherNeedles == {StringVal("1")}

ContainsWith(val, F) ==
    \E r \in {ValueContains(State, val, F)} :
      /\ Commit(r, "Contains", val, <<>>, "")
      /\ NotIterating

\* Contains need not return on an endless producer.
DoContains ==
    /\ kind # "fib"
    /\ \E F \in FaultsFor :
         \/ \E val \in IntNeedles : ContainsWith(val, F)
         \/ \E val \in OtherNeedles : ContainsWith(val, F)

\* reflect.Types asked of ConvertToNative
NativeTypes == {"int", "string"}

\* ConvertToNative touches neither the cursor nor the producer.
DoConvertToNative ==
    \E typ \in NativeTypes :
    \E r \in {ValueConvertToNative(State, typ)} :
      /\ Commit(r, "ConvertToNative", StringVal(typ), <<>>, "")
      /\ UNCHANGED <<iterating, trueCount, sawFalse>>

\* The generator of AsSeq(v, convert) run to its end; on an endless
\* producer only a consumer that stops lets it end.
DoAsSeq ==
    \E take \in (IF kind = "fib" THEN 1..2 ELSE 0..MaxLen), conv \in Converts,
       F \in FaultsFor :
    \E r \in {AsSeq(State, <<>>, take, conv, F)} :
      /\ Commit(r, "AsSeq", IntVal(take), r.out, conv)
      /\ NotIterating

Next ==
    \/ DoHasNext
    \/ DoNext
    \/ DoGet
    \/ DoSize
    \/ DoContains
    \/ DoAsSeq
    \/ DoConvertToNative

Spec == Init /\ [][Next]_vars

\* ------------------------------------------------------ a shared cursor
\* Two enumerations over one Value, each running the host's loop
\*   for it.HasNext() == types.True { x := it.Next(); ... }
\* on what Iterator() returned, one call at a time, in any interleaving.

\* enumeration e evaluates its loop condition
EnumHasNext(e) ==
    /\ pc[e] = "check"
    /\ \E F \in {G \in FaultsFor : G.hn <= 1 /\ G.nx = 0} :
       \E r \in {ValueHasNext(State, F)} :
         /\ CommitCursor(r, "HasNext", NoArg, <<>>, "")
         /\ pc' = [pc EXCEPT ![e] = IF Is(r.rv, True) THEN "advance" ELSE "done"]
         /\ UNCHANGED <<seen, iterating, trueCount, sawFalse>>

\* enumeration e runs its loop body: an element is seen, an error value or
\* a panic ends the enumeration
EnumNext(e) ==
    /\ pc[e] = "advance"
    /\ \E F \in {G \in FaultsFor : G.nx <= 1 /\ G.hn = 0} :
       \E r \in {ValueNext(State, F)} :
         /\ CommitCursor(r, "Next", NoArg, <<>>, "")
         /\ IF r.rv.type = "int"
            THEN /\ pc' = [pc EXCEPT ![e] = "check"]
                 /\ seen' = [seen EXCEPT ![e] = Append(@, native(r.rv))]
            ELSE /\ pc' = [pc EXCEPT ![e] = "failed"]
                 /\ seen' = seen
         /\ UNCHANGED <<iterating, trueCount, sawFalse>>

\* a producer with an end, whose complete sequence is values
InitShared == Init /\ kind # "fib"

NextShared == \E e \in Enumerations : EnumHasNext(e) \/ EnumNext(e)

SpecShared == InitShared /\ [][NextShared]_vars

\* ------------------------------------------------------------------ claims
N == Len(values)
Finite == kind \in {"callbacks", "seq"}

\* How many elements the producer has handed out in state s.
Consumed(s) == IF kind = "callbacks" THEN s.valuesIndex ELSE s.pulled

\* The elements the producer has not handed out yet in state s.
Remainder(s) == SubSeq(values, Consumed(s) + 1, N)

\* A cursor as New or FromSeq returns it.
Fresh(s) ==
    /\ s.index = -1 /\ s.cur = Zero /\ s.valuesIndex = 0 /\ s.pulled = 0
    /\ s.seqCur = Zero /\ ~s.stopped /\ ~s.pending

IntKey(k) == k.type = "int"

OutOfBounds == NewErr("index out of bounds during iterable access")
AlreadyPassed == NewErr("index already passed")

\* C1: on a fresh cursor over a producer of N elements (New or FromSeq),
\* Get(i) with 0 <= i < N returns the converted (i+1)-th element and leaves
\* the cursor's index at i.
C1_GetFresh ==
    (/\ Finite /\ last.op = "Get" /\ Fresh(last.pre) /\ ~last.faulted
     /\ IntKey(last.arg) /\ 0 <= last.arg.value /\ last.arg.value < N)
    => /\ Is(last.rv, convert(values[last.arg.value + 1]))
       /\ index = last.arg.value

C1_Witness ==
    /\ kind = "seq" /\ N = MaxLen /\ last.op = "Get" /\ Fresh(last.pre)
    /\ Is(last.arg, IntVal(N - 1)) /\ Is(last.rv, IntVal(values[N])) /\ index = N - 1

\* C2: the cursor is forward-only: in every reachable state, Get(i) with
\* 0 <= i < index fails with "index already passed", returns no element and
\* changes nothing.
C2_ForwardOnly ==
    (/\ last.op = "Get" /\ IntKey(last.arg)
     /\ 0 <= last.arg.value /\ last.arg.value < last.pre.index)
    => /\ Is(last.rv, AlreadyPassed)
       /\ index = last.pre.index /\ cur = last.pre.cur
       /\ last.hn = 0 /\ last.nx = 0

C2_Witness ==
    /\ last.op = "Get" /\ Is(last.arg, IntVal(0)) /\ last.pre.index = 2
    /\ Is(last.rv, AlreadyPassed)

\* C3: over a finite producer of N elements whose callbacks do not fail,
\* driven to the protocol (each true hasNext followed by next), Get(k) with
\* k >= N fails with "index out of bounds".
C3_GetOutOfBounds ==
    (/\ Finite /\ last.op = "Get" /\ proto /\ ~last.faulted
     /\ IntKey(last.arg) /\ last.arg.value >= N)
    => Is(last.rv, OutOfBounds)

C3_Witness ==
    /\ Finite /\ last.op = "Get" /\ proto /\ ~last.faulted /\ N = MaxLen
    /\ Is(last.arg, IntVal(N)) /\ last.pre.index = 0 /\ Is(last.rv, OutOfBounds)

\* C4: Size, over a finite producer whose callbacks do not fail, returns
\* the number of elements the producer has not handed out yet: N on a fresh
\* cursor, N - (index + 1) in a state the protocol has led to; and once Size
\* has returned every HasNext returns false.
C4_Size ==
    /\ (Finite /\ last.op = "Size" /\ ~last.faulted)
       => /\ Is(last.rv, IntVal(N - Consumed(last.pre)))
          /\ Fresh(last.pre) => Is(last.rv, IntVal(N))
          /\ (last.pre.proto /\ ~last.pre.pending)
             => Is(last.rv, IntVal(N - (last.pre.index + 1)))
    /\ (sized /\ last.op = "HasNext" /\ ~last.faulted) => Is(last.rv, False)

C4_Witness ==
    /\ sized /\ N = MaxLen /\ last.op = "HasNext" /\ Is(last.rv, False)
    /\ ~last.faulted /\ index = N - 1

\* Whether host value val equals the converted element e.
Matches(e, val) == Is(Equal(convert(e), val), True)

\* The position in sequence q of the first element matching val (0: none).
FirstMatch(q, val) ==
    IF \E i \in 1..Len(q) : Matches(q[i], val)
    THEN CHOOSE i \in 1..Len(q) :
           /\ Matches(q[i], val)
           /\ \A j \in 1..(i - 1) : ~Matches(q[j], val)
    ELSE 0

\* C5: Contains(x), in any cursor state over a finite producer whose
\* callbacks do not fail, returns true iff x equals some element the
\* producer has not handed out yet; it consumes exactly through the first
\* match, so that continued iteration delivers the element right after the
\* match, or everything when there is none.
C5_Contains ==
    (Finite /\ last.op = "Contains" /\ ~last.faulted)
    => LET m == FirstMatch(Remainder(last.pre), last.arg)
           after == Consumed(last.pre) + m
           h == ValueHasNext(State, NoFaults)
           n == ValueNext(h.s, NoFaults)
       IN
       /\ Is(last.rv, (IF m > 0 THEN True ELSE False))
       /\ Consumed(State) = (IF m > 0 THEN after ELSE N)
       /\ m > 0 => cur = values[after]
       /\ (m > 0 /\ after < N) => (Is(h.rv, True) /\ Is(n.rv, convert(values[after + 1])))
       /\ (m = 0 \/ after = N) => Is(h.rv, False)

C5_Witness ==
    /\ kind = "seq" /\ last.op = "Contains" /\ Is(last.rv, True)
    /\ Consumed(last.pre) = 0 /\ Consumed(State) = 2 /\ N = 2
    /\ values[1] # values[2]

\* C6: while a cursor over a producer of N elements is driven by the
\* iteration protocol, HasNext answers a boolean, answers true at most N
\* times, answers false only after N trues, and never answers true again
\* after a false.
C6_HasNextCount ==
    (Finite /\ iterating)
    => /\ trueCount <= N
       /\ sawFalse => trueCount = N
       /\ last.op = "HasNext" => last.rv.type = "bool"
       /\ (last.op = "HasNext" /\ Consumed(last.pre) = N /\ ~last.pre.pending)
          => Is(last.rv, False)

C6_Witness ==
    /\ kind = "seq" /\ iterating /\ sawFalse /\ trueCount = MaxLen
    /\ last.op = "HasNext" /\ last.pre.stopped /\ Is(last.rv, False)

\* C7: round trip: collecting AsSeq(FromSeq(G, convert), inverse convert)
\* for a generator G of a finite sequence gives exactly G's elements, in
\* order.
C7_RoundTrip ==
    (kind = "seq" /\ last.op = "AsSeq" /\ Fresh(last.pre) /\ Is(last.arg, IntVal(0)))
    => /\ last.out = values
       /\ Is(last.rv, StringVal("exhausted"))

C7_Witness ==
    /\ kind = "seq" /\ last.op = "AsSeq" /\ Fresh(last.pre) /\ Is(last.arg, IntVal(0))
    /\ N = MaxLen /\ last.out = values

\* The Fibonacci numbers 0, 1, 1, 2, 3, 5, ...
RECURSIVE Fib(_)
Fib(n) == IF n < 2 THEN n ELSE Fib(n - 1) + Fib(n - 2)

\* C8: on a fresh cursor over the endless Fibonacci generator, Get(k) returns
\* the k-th Fibonacci number (55 for k = 10) and has resumed the generator
\* exactly k + 1 times.
C8_Lazy ==
    (/\ kind = "fib" /\ last.op = "Get" /\ Fresh(last.pre)
     /\ IntKey(last.arg) /\ last.arg.value >= 0)
    => /\ Is(last.rv, IntVal(Fib(last.arg.value)))
       /\ last.arg.value = 10 => Is(last.rv, IntVal(55))
       /\ pulled = last.arg.value + 1
       /\ index = last.arg.value
       /\ ~stopped

C8_Witness ==
    /\ kind = "fib" /\ last.op = "Get" /\ Fresh(last.pre)
    /\ Is(last.arg, IntVal(10)) /\ Is(last.rv, IntVal(55)) /\ pulled = 11

\* C9: whenever a producer callback reports an error during HasNext, Next,
\* Get, Size or Contains, the operation returns a host error value: it does
\* not panic and does not return a normal result.
C9_ErrorsBecomeErrorValues ==
    (last.op \in {"HasNext", "Next", "Get", "Size", "Contains"} /\ last.faulted)
    => last.rv.type = "error"

\* C10: index starts at -1 and never decreases; index + 1 is the number of
\* advances that succeeded: Next adds one to index when the next callback
\* succeeds and leaves index and the current element alone when it fails.
C10_Index ==
    /\ last.op \in {"New", "FromSeq"} => index = -1
    /\ last.pre.index <= index
    /\ index + 1 = advances
    /\ (last.op = "Next" /\ last.rv.type = "error")
       => (index = last.pre.index /\ cur = last.pre.cur)
    /\ (last.op = "Next" /\ last.rv.type = "int")
       => (index = last.pre.index + 1 /\ Is(last.rv, convert(cur)))

C10_Witness ==
    /\ last.op = "Next" /\ last.rv.type = "error" /\ last.pre.index = 1
    /\ index = 1 /\ cur = last.pre.cur /\ advances = 2

\* C11: a cursor built by New with all three callbacks omitted answers false
\* to every HasNext, the first and all later ones; Size returns 0; Next
\* returns an error value wrapping "no next element"; and index stays -1.
C11_Defaults ==
    kind = "default"
    => /\ index = -1
       /\ last.op = "HasNext" => Is(last.rv, False)
       /\ last.op = "Size" => Is(last.rv, IntVal(0))
       /\ last.op = "Next" => Is(last.rv, NextErr("no next element"))

C11_Witness ==
    /\ kind = "default" /\ sized /\ ~last.pre.proto /\ last.pre.advances = 0
    /\ last.op = "HasNext" /\ Is(last.rv, False) /\ index = -1

\* C12: for a cursor FromSeq built over a finite generator, stop is invoked
\* by the HasNext call that observes exhaustion and not before: the
\* generator is released only once all its elements have been pulled, a
\* HasNext call releases it exactly when it answers false, and every
\* operation that drains the cursor (iteration to the end, Size, Contains
\* answering false, Get out of bounds, AsSeq run to exhaustion) returns with
\* the generator released.
C12_ReleaseOnExhaustion ==
    kind = "seq"
    => /\ stopped => pulled = N
       /\ (stopped /\ ~last.pre.stopped) => last.hn >= 1
       /\ last.op = "HasNext" => (stopped <=> Is(last.rv, False))
       /\ last.op = "Size" => stopped
       /\ (last.op = "Contains" /\ Is(last.rv, False)) => stopped
       /\ (last.op = "Get" /\ Is(last.rv, OutOfBounds)) => stopped
       /\ (last.op = "AsSeq" /\ Is(last.rv, StringVal("exhausted"))) => stopped

C12_Witness ==
    /\ kind = "seq" /\ N = MaxLen /\ last.op = "Get" /\ Is(last.rv, OutOfBounds)
    /\ ~last.pre.stopped /\ last.pre.pulled = N /\ stopped

\* C13: the generator AsSeq returns stops, yielding nothing further, as
\* soon as HasNext or Next reports a producer error: it returns without
\* another callback call, it does not panic, and it has yielded only
\* values of advances that succeeded.
C13_AsSeqStopsOnError ==
    (last.op = "AsSeq" /\ last.faulted)
    => /\ ~IsPanic(last.rv)
       /\ ~last.retried
       /\ Len(last.out) <= advances - last.pre.advances

\* C14: ConvertToNative called on a cursor on which no advance has yet
\* succeeded (index = -1, the current element undefined) returns an error.
C14_ConvertToNativeGuard ==
    (last.op = "ConvertToNative" /\ last.pre.index = -1)
    => last.rv.type = "error"

\* C15: no retry: when a producer callback reports an error during Get,
\* Size or Contains, the operation calls no producer callback after the
\* failed call and returns with that failure.
C15_NoRetry ==
    (last.op \in {"Get", "Size", "Contains"} /\ last.faulted)
    => /\ ~last.retried
       /\ last.rv.type = "error"

FromSeqBuilt == kind \in {"seq", "fib"}

\* The element FromSeq's hasNext obtained last, by the generator's position.
LastObtained == IF stopped \/ pulled = 0 THEN Zero ELSE values[pulled]

\* C16: on a cursor built by FromSeq, in every step: Next returns the
\* element the most recent hasNext obtained and adds one to index; a Next
\* right after a Next returns the same element again, index having grown
\* by two; a HasNext right after a HasNext that answered true resumes the
\* generator once more, so that the element the first one obtained is
\* passed over: what Next delivers is always the element obtained last.
C16_StaleNext ==
    [][FromSeqBuilt =>
        /\ kind = "seq" => seqCur = LastObtained
        /\ last'.op = "Next"
           => /\ Is(last'.rv, convert(seqCur))
              /\ index' = index + 1
              /\ pulled' = pulled
        /\ (last.op = "Next" /\ last'.op = "Next")
           => /\ Is(last'.rv, last.rv)
              /\ index' = last.pre.index + 2
        /\ (kind = "seq" /\ last.op = "HasNext" /\ Is(last.rv, True)
            /\ last'.op = "HasNext")
           => /\ seqCur = values[pulled]
              /\ IF pulled < N
                 THEN pulled' = pulled + 1 /\ seqCur' = values[pulled + 1]
                 ELSE stopped' /\ seqCur' = Zero
    ]_vars

C16_Witness ==
    /\ kind = "seq" /\ N = 2 /\ values[1] # values[2]
    /\ last.op = "Next" /\ last.pre.index = 0 /\ index = 1 /\ advances = 2
    /\ pulled = 2 /\ ~stopped
    /\ last.pre.cur = values[2] /\ Is(last.rv, convert(values[2]))

\* C17: when the consumer of the generator AsSeq returns over a cursor built
\* by FromSeq stops early (yield returns false), the exporter invokes no
\* release handle: it returns with the underlying generator resumed once
\* per element yielded, still suspended and not released.
C17_NoReleaseOnEarlyStop ==
    (FromSeqBuilt /\ last.op = "AsSeq" /\ Is(last.rv, StringVal("stopped")))
    => /\ ~stopped
       /\ ~last.pre.stopped
       /\ pulled = last.pre.pulled + last.arg.value
       /\ Len(last.out) = last.arg.value

C17_Witness ==
    /\ kind = "seq" /\ N = 2 /\ last.op = "AsSeq" /\ Fresh(last.pre)
    /\ Is(last.arg, IntVal(1)) /\ Is(last.rv, StringVal("stopped"))
    /\ last.out = <<values[1]>> /\ pulled = 1 /\ ~stopped

\* The last operation called no producer callback and left the cursor's
\* index and current element and the producer's position as they were.
Untouched ==
    /\ last.hn = 0 /\ last.nx = 0
    /\ index = last.pre.index /\ cur = last.pre.cur
    /\ valuesIndex = last.pre.valuesIndex
    /\ seqCur = last.pre.seqCur /\ pulled = last.pre.pulled
    /\ a = last.pre.a /\ b = last.pre.b /\ stopped = last.pre.stopped

\* C19: Get's validation failures have no effect: Get with a key that is
\* not an int, with a negative key, or with a key below the current index
\* returns its error without calling hasNext or next and leaves index, the
\* current element and the producer's position unchanged.
C19_GetValidationFrame ==
    /\ (last.op = "Get" /\ ~IntKey(last.arg))
       => (Is(last.rv, NewErr("invalid key type for iterable")) /\ Untouched)
    /\ (last.op = "Get" /\ IntKey(last.arg) /\ last.arg.value < 0)
       => (Is(last.rv, NewErr("index cannot be negative")) /\ Untouched)
    /\ (last.op = "Get" /\ IntKey(last.arg) /\ last.arg.value >= 0
        /\ last.arg.value < last.pre.index)
       => (Is(last.rv, AlreadyPassed) /\ Untouched)

C19_Witness ==
    /\ kind = "seq" /\ last.op = "Get" /\ Is(last.arg, IntVal(-1))
    /\ last.pre.pending /\ last.pre.pulled = 1 /\ last.pre.index = -1
    /\ last.rv.type = "error" /\ pulled = 1 /\ index = -1 /\ ~stopped

\* C20: Get is idempotent at the current position: Get(k) with k equal to
\* the cursor's index, k >= 0, returns the current element again without
\* calling hasNext or next and changes nothing; and a Get(k) that returned
\* an element has left the cursor at index k holding that element, so that
\* every repetition of it is such a call and returns the same value.
C20_GetIdempotent ==
    /\ (last.op = "Get" /\ IntKey(last.arg) /\ last.arg.value >= 0
        /\ last.arg.value = last.pre.index)
       => (Is(last.rv, convert(last.pre.cur)) /\ Untouched)
    /\ (last.op = "Get" /\ last.rv.type = "int")
       => (index = last.arg.value /\ Is(last.rv, convert(cur)))

C20_Witness ==
    /\ Finite /\ last.op = "Get" /\ Is(last.arg, IntVal(1)) /\ last.pre.index = 1
    /\ last.pre.proto /\ N = 2
    /\ Is(last.rv, convert(values[2])) /\ index = 1 /\ cur = values[2]
    /\ Consumed(State) = Consumed(last.pre)

\* Enumeration e has advanced at least once.
Advanced(e) == Len(seen[e]) >= 1

\* Enumeration e has run to its end and has seen the producer's complete
\* sequence.
Observes(e) == pc[e] = "done" /\ seen[e] = values

\* C18 as stated: in every interleaving of two HasNext/Next loops over one
\* shared cursor in which each enumeration advances at least once, neither
\* observes the complete producer sequence; and in no interleaving do both
\* observe it.
C18_AsStated ==
    /\ (\A e \in Enumerations : Advanced(e))
       => \A e \in Enumerations : seen[e] # values
    /\ ~(\A e \in Enumerations : Observes(e))

\* C18, amended: in every interleaving of two HasNext/Next loops over one
\* shared cursor in which each enumeration advances at least once, neither
\* observes the complete producer sequence; and in no interleaving over a
\* producer of at least one element do both observe it.
C18_SharedCorrupts ==
    /\ (\A e \in Enumerations : Advanced(e))
       => \A e \in Enumerations : seen[e] # values
    /\ N >= 1 => ~(\A e \in Enumerations : Observes(e))

C18_Witness ==
    /\ kind = "callbacks" /\ N = 2
    /\ \A e \in Enumerations : pc[e] = "done" /\ Advanced(e)
    /\ seen[1] = <<values[2]>> /\ seen[2] = <<values[1]>>

====
